---- MODULE Spec2Model ----
(***************************************************************************)
(* A model of vermouth/processors/repair_graph.py: make_reference,         *)
(* repair_residue, repair_graph and the RepairGraph processor.              *)
(*                                                                         *)
(* Graphs are records [nodes |-> function from node id to attributes,       *)
(* edges |-> set of sets of node ids]; a reference graph has in addition    *)
(* order, the sequence in which networkx iterates its nodes.  A node's      *)
(* attribute dictionary is a record of the keys the code reads or writes;   *)
(* an absent key holds "" (strings), 0 (numbers) or FALSE (flags).          *)
(***************************************************************************)
EXTENDS Integers, Sequences, FiniteSets, TLC

\* ------------------------------------------------------------------ bounds
\* Reference atoms of a record when repair_graph is called with one record.
MaxRef == 3
\* Reference atoms of each record when it is called with two records.
MaxRefPair == 2
\* Molecules of a system handed to run_system.
MaxMol == 2
\* Calls of run_system on the same system.
MaxPass == 2

VARIABLES
    pc,              \* position in the code
    entry,           \* the function the caller invoked: "run_system" or "repair_graph"
    exc,             \* the exception in flight or raised ("" when none)
    delete_unknown,  \* RepairGraph.delete_unknown
    force_field,     \* mol.force_field.reference_graphs: resname -> reference graph
    unmatchable,     \* resnames for which the matcher is stubbed to find nothing
    system,          \* system.molecules
    system0,         \* system.molecules when the current run_system call started
    pass,            \* number of the current run_system call
    mols,            \* run_system's local list mols
    kept,            \* for each entry of mols, the index it had in system.molecules
    idx,             \* run_system's loop index (1-based)
    molecule,        \* the molecule being built / repaired (run_molecule's copy)
    residues,        \* make_reference's residue graph
    reference_graph, \* the reference collection
    ri,              \* position in the loop over residues / over reference_graph
    missing,         \* repair_residue's list missing
    added,           \* repair_residue's flag added
    pos,             \* index of the list iterator of "for ref_idx in missing"
    match0,          \* the current record's match when repair_residue was entered
    synth,           \* history: the atoms synthesized so far, in order
    stages,          \* history: per residue of make_reference, the matcher stages run
    log,             \* the events emitted through LOGGER, in order
    queued,          \* history: the length of missing when the current pass started
    threads,         \* the workers of a concurrent repair: their position and locals
    turns            \* history: per record, how far the loop of line 260 came with it

vars == <<pc, entry, exc, delete_unknown, force_field, unmatchable, system,
          system0, pass, mols, kept, idx, molecule, residues, reference_graph,
          ri, missing, added, pos, match0, synth, stages, log, queued,
          threads, turns>>

\* ----------------------------------------------------------------- helpers
Range(s) == {s[i] : i \in DOMAIN s}

Max(S) == CHOOSE x \in S : \A y \in S : y <= x

Min(S) == CHOOSE x \in S : \A y \in S : x <= y

\* list.index(x): the first position holding x.
Index(s, x) == Min({i \in DOMAIN s : s[i] = x})

\* Mutant of Pop: list.pop() without an index drops the last element.
PopLast(s, i) == SubSeq(s, 1, Len(s) - 1)

\* list.pop(i) (1-based): the list without its i-th element.
Pop(s, i) == [j \in 1..(Len(s) - 1) |-> IF j < i THEN s[j] ELSE s[j + 1]]

\* The empty dictionary.
EmptyMap == [x \in {} |-> 0]

\* The increasing enumeration of a finite set of integers.
RECURSIVE SortedSeq(_)
SortedSeq(S) == IF S = {} THEN <<>> ELSE <<Min(S)>> \o SortedSeq(S \ {Min(S)})

\* A node attribute dictionary.
Attr(resname, resid, chain, atomname, element, atomid) ==
    [resname |-> resname, resid |-> resid, chain |-> chain,
     atomname |-> atomname, element |-> element, atomid |-> atomid,
     PTM_atom |-> FALSE, graph |-> FALSE]

\* The dictionary without any key.
NoAttr == Attr("", 0, "", "", "", 0)

\* dict.update: the keys present in b overwrite those of a.
Update(a, b) ==
    [resname  |-> IF b.resname # "" THEN b.resname ELSE a.resname,
     resid    |-> IF b.resid # 0 THEN b.resid ELSE a.resid,
     chain    |-> IF b.chain # "" THEN b.chain ELSE a.chain,
     atomname |-> IF b.atomname # "" THEN b.atomname ELSE a.atomname,
     element  |-> IF b.element # "" THEN b.element ELSE a.element,
     atomid   |-> IF b.atomid # 0 THEN b.atomid ELSE a.atomid,
     PTM_atom |-> b.PTM_atom \/ a.PTM_atom,
     graph    |-> b.graph \/ a.graph]

\* Graph.add_node(n, **attr) on the nodes of a graph: a node that exists
\* keeps the keys attr does not name.
AddNode(nodes, n, attr) ==
    IF n \in DOMAIN nodes
    THEN [nodes EXCEPT ![n] = Update(@, attr)]
    ELSE (n :> attr) @@ nodes

\* reference[ref_idx]: the neighbours of a node.
Nbrs(g, n) == {m \in DOMAIN g.nodes : {n, m} \in g.edges}

EmptyGraph == [nodes |-> EmptyMap, edges |-> {}]

\* An event of the log: its level and type, its message, and the arguments
\* the message is formatted with.  rec and ref are history: the record and
\* the reference atom the statement was executed for (-1 when none), the
\* molecule of the system and the call of run_system it was executed in.
Event(level, type, what, resname, resid, atomname, rec, ref) ==
    [level |-> level, type |-> type, what |-> what,
     resname |-> resname, resid |-> resid, atomname |-> atomname,
     rec |-> rec, ref |-> ref, mol |-> idx, pass |-> pass]

\* A record (node) of the reference collection.  has is FALSE for a node
\* that carries no attribute at all.
Record(chain, resname, resid, reference, found, match) ==
    [has |-> TRUE, chain |-> chain, resname |-> resname, resid |-> resid,
     reference |-> reference, found |-> found, match |-> match]

NoRecord ==
    [has |-> FALSE, chain |-> "", resname |-> "", resid |-> 0,
     reference |-> [order |-> <<>>, nodes |-> EmptyMap, edges |-> {}],
     found |-> EmptyGraph, match |-> EmptyMap]

\* ------------------------------------------------- repair_residue, step 1
\* The record repair_graph is working on.
CurIdx == reference_graph.order[ri]

Cur == reference_graph.rec[CurIdx]

\* Mutant of MissingOf: every reference node is queued, matched or not.
MissingAll(reference, match) == reference.order

\* Lines 146-165: the reference nodes that are no key of match, in the
\* iteration order of the reference.
MissingOf(reference, match) ==
    LET absent(r) == r \notin DOMAIN match
    IN  SelectSeq(reference.order, absent)

\* Lines 146-148: a turn of the loop over the reference looks v up.
Matched(reference, match, v) ==
    \E i \in DOMAIN reference.order :
        /\ reference.order[i] \in DOMAIN match
        /\ match[reference.order[i]] = v

\* Lines 146-148: the reference nodes that match maps to v, in the order in
\* which the loop meets them.
RefsOf(reference, match, v) ==
    LET onto(r) == r \in DOMAIN match /\ match[r] = v
    IN  SelectSeq(reference.order, onto)

\* Lines 152 and 155: node.update(reference.nodes[ref_idx]), once for each
\* of the reference nodes refs, one after the other.
RECURSIVE UpdateAll(_, _, _)
UpdateAll(attr, reference, refs) ==
    IF refs = <<>>
    THEN attr
    ELSE UpdateAll(Update(attr, reference.nodes[Head(refs)]), reference,
                   Tail(refs))

\* Lines 149-152: the structure graph's nodes after the turns of the loop of
\* step 1 over reference.order.
CanonNodes(nodes, reference, match) ==
    [v \in DOMAIN nodes |->
        IF Matched(reference, match, v)
        THEN UpdateAll([nodes[v] EXCEPT !.graph = TRUE], reference,
                       RefsOf(reference, match, v))
        ELSE nodes[v]]

\* Line 155: the nodes of found after the turns of the loop of step 1 over
\* reference.order.
CanonFound(nodes, reference, match) ==
    [v \in DOMAIN nodes |->
        IF Matched(reference, match, v)
        THEN UpdateAll(nodes[v], reference, RefsOf(reference, match, v))
        ELSE nodes[v]]

\* The keys lines 158-159 look up on an unmatched reference node are present.
MissingKeysOK(reference, r) ==
    /\ reference.nodes[r].atomname # ""
    /\ reference.nodes[r].element # ""

\* Lines 146-159: the first turn of the loop over the reference in which a
\* lookup fails: the matched node is no node of the structure graph (line
\* 149) or of found (line 155), or the unmatched reference node lacks its
\* atomname (line 158) or element (line 159); one past the last turn when
\* none fails.
Step1Stop(reference, match, molnodes, foundnodes) ==
    LET bad == {i \in DOMAIN reference.order :
                   IF reference.order[i] \in DOMAIN match
                   THEN match[reference.order[i]] \notin
                            (DOMAIN molnodes \cap DOMAIN foundnodes)
                   ELSE ~MissingKeysOK(reference, reference.order[i])}
    IN  IF bad = {} THEN Len(reference.order) + 1 ELSE Min(bad)

\* The reference with the loop over it cut after n turns.
Upto(reference, n) == [reference EXCEPT !.order = SubSeq(@, 1, n)]

\* Lines 157-164: the events logged for a missing atom: one, hydrogens at
\* level 5, below debug; none when a lookup of line 158 or 159 raises.
MissingEvent(rec, r, residx) ==
    IF MissingKeysOK(rec.reference, r)
    THEN <<Event(IF rec.reference.nodes[r].element # "H" THEN "info" ELSE "5",
                 "missing-atom", "Missing atom", rec.resname, rec.resid,
                 rec.reference.nodes[r].atomname, residx, r)>>
    ELSE <<>>

\* Lines 157-164 for the unmatched atoms miss in turn, up to the first one
\* for which a lookup raises.
RECURSIVE MissingEvents(_, _, _)
MissingEvents(rec, miss, residx) ==
    IF miss = <<>> \/ ~MissingKeysOK(rec.reference, Head(miss))
    THEN <<>>
    ELSE MissingEvent(rec, Head(miss), residx)
             \o MissingEvents(rec, Tail(miss), residx)

\* Lines 139-144: the keys repair_residue looks up on the record are there.
\* A node without any attribute fails at line 139, one without resid at line
\* 143, one without resname at line 144.
RecordKeysOK(rec) ==
    /\ rec.has
    /\ rec.resid # 0
    /\ rec.resname # ""

\* Line 262: repair_residue is called for record residx.
Call(t, residx) == (residx :> "called") @@ t

\* Line 264 is reached: repair_residue has returned for record residx.
Return(t, residx) == (residx :> "returned") @@ t

\* Line 260 is reached again: the turn of record residx is over.
TurnOver(t, residx) == (residx :> "over") @@ t

\* Lines 260-262 and 137-169: repair_graph takes the next record and
\* repair_residue runs its step 1.  A record that lacks a key fails at the
\* lookup of it (lines 139-144), after missing was emptied.  A match value that
\* is no node of the structure graph (line 149) or of found (line 155), or an
\* unmatched reference node without atomname or element (lines 158-159),
\* fails there, in the middle of the loop: the turns before it have renamed
\* their nodes and logged their events, and a turn failing at line 155 has
\* renamed the node of the structure graph.
EnterResidue ==
    /\ pc = "repair_graph"
    /\ ri <= Len(reference_graph.order)
    /\ turns' = Call(turns, CurIdx)
    /\ IF ~RecordKeysOK(Cur)
       THEN /\ pc' = "except"
            /\ exc' = "KeyError"
            /\ missing' = <<>>
            /\ UNCHANGED <<molecule, reference_graph, added, match0, log>>
       ELSE LET n     == Len(Cur.reference.order)
                stop  == Step1Stop(Cur.reference, Cur.match, molecule.nodes,
                                   Cur.found.nodes)
                done  == Upto(Cur.reference, stop - 1)
                begun == Upto(Cur.reference, Min({stop, n}))
            IN  /\ molecule' = [molecule EXCEPT
                       !.nodes = CanonNodes(@, begun, Cur.match)]
                /\ reference_graph' = [reference_graph EXCEPT
                       !.rec[CurIdx].found.nodes =
                           CanonFound(@, done, Cur.match)]
                /\ missing' = MissingOf(done, Cur.match)
                /\ log' = log \o MissingEvents(Cur, MissingOf(done, Cur.match),
                                               CurIdx)
                /\ IF stop > n
                   THEN /\ added' = TRUE
                        /\ match0' = Cur.match
                        /\ pc' = "while"
                        /\ exc' = exc
                   ELSE /\ pc' = "except"
                        /\ exc' = "KeyError"
                        /\ UNCHANGED <<added, match0>>
    /\ UNCHANGED <<entry, delete_unknown, force_field, unmatchable, system,
                   system0, pass, mols, kept, idx, residues, ri, pos, synth,
                   stages>>
    /\ UNCHANGED <<queued, threads>>

\* ------------------------------------------------- repair_residue, step 2
\* Mutant of WhileCond: the loop goes on as long as atoms are queued.
WhileCondQueue(miss, add) == miss # <<>>

\* Line 170: the loop condition.
WhileCond(miss, add) == miss # <<>> /\ add

\* Line 170, and line 172 creating the list iterator.
WhileTest ==
    /\ pc = "while"
    /\ IF WhileCond(missing, added)
       THEN /\ added' = FALSE
            /\ pos' = 0
            /\ queued' = Len(missing)
            /\ pc' = "for"
       ELSE /\ pc' = "report"
            /\ UNCHANGED <<added, pos, queued>>
    /\ UNCHANGED <<entry, exc, delete_unknown, force_field, unmatchable, system,
                   system0, pass, mols, kept, idx, molecule, residues,
                   reference_graph, ri, missing, match0, synth, stages, log,
                   threads, turns>>

\* Mutant of AllMissing: any() in place of all().
AllMissingAny(reference, miss, r) ==
    \E n \in Nbrs(reference, r) : n \in Range(miss)

\* Line 175: every reference neighbour of the atom is itself missing.
AllMissing(reference, miss, r) ==
    \A n \in Nbrs(reference, r) : n \in Range(miss)

\* Lines 172-176: the iterator yields an atom without a known neighbour.
ForSkip ==
    /\ pc = "for"
    /\ pos < Len(missing)
    /\ AllMissing(Cur.reference, missing, missing[pos + 1])
    /\ pos' = pos + 1
    /\ UNCHANGED <<pc, entry, exc, delete_unknown, force_field, unmatchable,
                   system, system0, pass, mols, kept, idx, molecule, residues,
                   reference_graph, ri, missing, added, match0, synth, stages,
                   log>>
    /\ UNCHANGED <<queued, threads, turns>>

\* Mutant of AddedFlag: the flag is not raised when an atom is placed.
AddedFlagStale == FALSE

\* Line 177: an atom is being placed in this pass.
AddedFlag == TRUE

\* Mutant of NewNodeId: the largest id in use, not the one after it.
NewNodeIdInUse(mol) == Max(DOMAIN mol.nodes)

\* Line 183: the id of a new node.
NewNodeId(mol) == Max(DOMAIN mol.nodes) + 1

\* Mutant of NewNode: line 193 is left out, atomid stays unset.
NewNodeNoAtomid(rec, r, res_idx) ==
    Update(Attr(rec.resname, rec.resid, rec.chain, "", "", 0),
           rec.reference.nodes[r])

\* Lines 186-193: the attributes of a new node: the record's items except
\* match, found and reference, overlaid with the reference node's, and atomid.
NewNode(rec, r, res_idx) ==
    [Update(Attr(rec.resname, rec.resid, rec.chain, "", "", 0),
            rec.reference.nodes[r])
     EXCEPT !.atomid = res_idx + 1]

\* Mutant of NewEdges: the loop of line 209 stops after its first edge.
NewEdgesFirst(mol, reference, match, r, res_idx) ==
    LET all == {{match[n], res_idx} : n \in Nbrs(reference, r) \cap DOMAIN match}
                  \ mol.edges
    IN  IF all = {} THEN {} ELSE {CHOOSE e \in all : TRUE}

\* Lines 208-216: the edges added for a new node, given match after line 195.
NewEdges(mol, reference, match, r, res_idx) ==
    {{match[n], res_idx} : n \in Nbrs(reference, r) \cap DOMAIN match}
        \ mol.edges

\* Lines 199-206: the event for an added atom.
AddingEvent(node, residx, r) ==
    Event(IF node.element # "H" THEN "debug" ELSE "5", "missing-atom",
          "Adding", node.resname, node.resid, node.atomname, residx, r)

\* Mutant of Register: the new entry replaces the mapping.
RegisterAlone(match, r, res_idx) == (r :> res_idx)

\* Line 195: match[ref_idx] = res_idx.
Register(match, r, res_idx) == (r :> res_idx) @@ match

\* Lines 172-217: the iterator yields an atom with a known neighbour; it is
\* popped from the list being iterated, synthesized and connected.  max() of
\* a structure graph without nodes fails at line 183.
ForAdd ==
    /\ pc = "for"
    /\ pos < Len(missing)
    /\ ~AllMissing(Cur.reference, missing, missing[pos + 1])
    /\ added' = AddedFlag
    /\ missing' = Pop(missing, Index(missing, missing[pos + 1]))
    /\ pos' = pos + 1
    /\ IF DOMAIN molecule.nodes = {}
       THEN /\ pc' = "except"
            /\ exc' = "ValueError"
            /\ UNCHANGED <<reference_graph, molecule, log, synth>>
       ELSE LET r       == missing[pos + 1]
                res_idx == NewNodeId(molecule)
                node    == NewNode(Cur, r, res_idx)
                match   == Register(Cur.match, r, res_idx)
                withnode == [molecule EXCEPT !.nodes = AddNode(@, res_idx, node)]
                edges   == NewEdges(withnode, Cur.reference, match, r, res_idx)
            IN  /\ reference_graph' = [reference_graph EXCEPT
                       !.rec[CurIdx].match = match,
                       !.rec[CurIdx].found.nodes = AddNode(@, res_idx, node)]
                /\ molecule' = [withnode EXCEPT !.edges = @ \cup edges]
                /\ log' = Append(log, AddingEvent(node, CurIdx, r))
                /\ synth' = Append(synth,
                       [rec |-> CurIdx, ref |-> r, node |-> res_idx,
                        known |-> Nbrs(Cur.reference, r) \cap DOMAIN Cur.match])
                /\ IF Cardinality(edges) # 0
                   THEN UNCHANGED <<pc, exc>>
                   ELSE pc' = "except" /\ exc' = "AssertionError"
    /\ UNCHANGED <<entry, delete_unknown, force_field, unmatchable, system,
                   system0, pass, mols, kept, idx, residues, ri, match0, stages>>
    /\ UNCHANGED <<queued, threads, turns>>

\* Line 172: the iterator is exhausted; back to the loop condition.
ForEnd ==
    /\ pc = "for"
    /\ pos >= Len(missing)
    /\ pc' = "while"
    /\ UNCHANGED <<entry, exc, delete_unknown, force_field, unmatchable, system,
                   system0, pass, mols, kept, idx, molecule, residues,
                   reference_graph, ri, missing, added, pos, match0, synth,
                   stages, log>>
    /\ UNCHANGED <<queued, threads, turns>>

\* Lines 220-224: the event for an atom that could not be placed; resname and
\* resid are read from the reference node.
ReportEvent(reference, r, residx) ==
    Event("error", "missing-atom", "Could not reconstruct atom",
          reference.nodes[r].resname, reference.nodes[r].resid,
          reference.nodes[r].atomname, residx, r)

\* The keys line 221-223 look up on a reference node are all present.
ReportKeysOK(reference, r) ==
    /\ reference.nodes[r].resname # ""
    /\ reference.nodes[r].resid # 0
    /\ reference.nodes[r].atomname # ""

\* The atoms of missing reported before the first failing lookup.
ReportedPrefix(reference, miss) ==
    LET bad == {i \in DOMAIN miss : ~ReportKeysOK(reference, miss[i])}
    IN  IF bad = {} THEN miss ELSE SubSeq(miss, 1, Min(bad) - 1)

\* Lines 218-224: report what is left in missing; repair_residue returns.
Report ==
    /\ pc = "report"
    /\ log' = log \o [i \in DOMAIN ReportedPrefix(Cur.reference, missing) |->
                         ReportEvent(Cur.reference, missing[i], CurIdx)]
    /\ IF ReportedPrefix(Cur.reference, missing) = missing
       THEN /\ pc' = "mark"
            /\ exc' = exc
            /\ turns' = Return(turns, CurIdx)
       ELSE /\ pc' = "except"
            /\ exc' = "KeyError"
            /\ UNCHANGED turns
    /\ UNCHANGED <<entry, delete_unknown, force_field, unmatchable, system,
                   system0, pass, mols, kept, idx, molecule, residues,
                   reference_graph, ri, missing, added, pos, match0, synth,
                   stages>>
    /\ UNCHANGED <<queued, threads>>

\* ------------------------------------------------------------ repair_graph
\* Mutant of Extra: the keys of match in place of its values.
ExtraByKeys(found, match) == DOMAIN found.nodes \ DOMAIN match

\* Line 274: the nodes of found that are no value of match.
Extra(found, match) == DOMAIN found.nodes \ Range(match)

\* Mutant of MarkPTM: every node is flagged.
MarkPTMAll(nodes, extra) ==
    [v \in DOMAIN nodes |-> [nodes[v] EXCEPT !.PTM_atom = TRUE]]

\* Lines 275-277: flag the given nodes.
MarkPTM(nodes, extra) ==
    [v \in DOMAIN nodes |->
        IF v \in extra THEN [nodes[v] EXCEPT !.PTM_atom = TRUE] ELSE nodes[v]]

\* Lines 275-276: what the loop over extra can have flagged when it meets a
\* node that the structure graph lacks.  extra is a set, iterated in an order
\* the code does not choose: any of the nodes that the structure graph has
\* may come before the first one it lacks.
FlaggedBeforeFailure(extra, molnodes) == SUBSET (extra \cap DOMAIN molnodes)

\* Lines 264-277: flag the atoms of found that the reference does not have,
\* on the structure graph and on found; then the next record.  A node of
\* extra that is no node of the structure graph fails at line 276, the nodes
\* met before it being flagged on both graphs.
MarkExtra ==
    /\ pc = "mark"
    /\ IF Extra(Cur.found, Cur.match) \subseteq DOMAIN molecule.nodes
       THEN /\ molecule' = [molecule EXCEPT
                   !.nodes = MarkPTM(@, Extra(Cur.found, Cur.match))]
            /\ reference_graph' = [reference_graph EXCEPT
                   !.rec[CurIdx].found.nodes =
                       MarkPTM(@, Extra(Cur.found, Cur.match))]
            /\ ri' = ri + 1
            /\ pc' = "repair_graph"
            /\ exc' = exc
            /\ turns' = TurnOver(turns, CurIdx)
       ELSE /\ \E flagged \in FlaggedBeforeFailure(Extra(Cur.found, Cur.match),
                                                   molecule.nodes) :
                   /\ molecule' = [molecule EXCEPT
                          !.nodes = MarkPTM(@, flagged)]
                   /\ reference_graph' = [reference_graph EXCEPT
                          !.rec[CurIdx].found.nodes = MarkPTM(@, flagged)]
            /\ pc' = "except"
            /\ exc' = "KeyError"
            /\ UNCHANGED <<ri, turns>>
    /\ UNCHANGED <<entry, delete_unknown, force_field, unmatchable, system,
                   system0, pass, mols, kept, idx, residues, missing, added,
                   pos, match0, synth, stages, log>>
    /\ UNCHANGED <<queued, threads>>

\* Line 279, for a caller that invoked repair_graph itself.
RepairGraphReturn ==
    /\ pc = "repair_graph"
    /\ entry = "repair_graph"
    /\ ri > Len(reference_graph.order)
    /\ pc' = "returned"
    /\ UNCHANGED <<entry, exc, delete_unknown, force_field, unmatchable, system,
                   system0, pass, mols, kept, idx, molecule, residues,
                   reference_graph, ri, missing, added, pos, match0, synth,
                   stages, log>>
    /\ UNCHANGED <<queued, threads, turns>>

\* An exception leaves repair_graph when no caller of the model catches it.
RepairGraphRaise ==
    /\ pc = "except"
    /\ entry = "repair_graph"
    /\ pc' = "raised"
    /\ UNCHANGED <<entry, exc, delete_unknown, force_field, unmatchable, system,
                   system0, pass, mols, kept, idx, molecule, residues,
                   reference_graph, ri, missing, added, pos, match0, synth,
                   stages, log>>
    /\ UNCHANGED <<queued, threads, turns>>

\* The steps of repair_graph and repair_residue.
RepairSteps ==
    \/ EnterResidue
    \/ WhileTest
    \/ ForSkip
    \/ ForAdd
    \/ ForEnd
    \/ Report
    \/ MarkExtra

\* --------------------------------- inputs of a direct call of repair_graph
\* Atom names and elements of the reference atoms 0, 1, 2, ...
RefNames == <<"CA", "HA", "CB", "HB", "C">>

RefElements == <<"C", "H", "C", "H", "C">>

\* The reference graphs with nodes 0..k-1, iterated in that order, and every
\* set of bonds.  Listing the nodes in increasing order loses nothing: the
\* bonds range over all sets, so every order of the queue relative to the
\* bonds occurs.  withResid tells whether the nodes carry the key resid.
RefGraphs(k, resname, withResid) ==
    {[order |-> [i \in 1..k |-> i - 1],
      nodes |-> [n \in 0..(k - 1) |->
                    Attr(resname, IF withResid THEN 1 ELSE 0, "",
                         RefNames[n + 1], RefElements[n + 1], 0)],
      edges |-> E] :
        E \in SUBSET {{p[1], p[2]} :
                         p \in {q \in (0..(k - 1)) \X (0..(k - 1)) : q[1] < q[2]}}}

\* The match that maps the reference nodes D, in increasing order, to the
\* structure nodes base, base + 1, ...
MatchOnto(D, base) ==
    [r \in D |-> base + Cardinality({d \in D : d < r})]

\* The residue found in the structure for a reference, the matched reference
\* nodes D and nx further atoms: the matched atoms carry the names of the
\* structure file and are bonded as the reference says, the further atoms
\* are bonded to the first atom of the residue.
FoundFor(reference, resname, resid, D, nx, base) ==
    LET m   == MatchOnto(D, base)
        n   == Cardinality(D)
        ids == base..(base + n + nx - 1)
        inv(v) == CHOOSE r \in D : m[r] = v
    IN  [nodes |-> [v \in ids |->
                      IF v < base + n
                      THEN Attr(resname, resid, "A", "X",
                                reference.nodes[inv(v)].element, v + 1)
                      ELSE Attr(resname, resid, "A", "XT", "C", v + 1)],
         edges |-> {{m[p[1]], m[p[2]]} :
                       p \in {q \in D \X D : {q[1], q[2]} \in reference.edges}}
                   \cup {{base, v} : v \in (base + n)..(base + n + nx - 1)}]

\* The records of residue resid for one reference graph, with structure node
\* ids from base on: every set of matched atoms, with and without a further
\* atom.
RecordsFor(g, resid, base) ==
    {Record("A", "ALA", resid, g,
            FoundFor(g, "ALA", resid, D, nx, base), MatchOnto(D, base)) :
        D \in SUBSET DOMAIN g.nodes, nx \in 0..1}

\* The records for residue resid whose reference has at most k atoms.
RecordsUpTo(k, resid, base, withResid) ==
    UNION {RecordsFor(g, resid, base) :
              g \in UNION {RefGraphs(j, "ALA", withResid) : j \in 1..k}}

\* The reference collections of a direct call: one record with up to MaxRef
\* reference atoms, or two records with up to MaxRefPair reference atoms each.
Collections(withResid) ==
    {[order |-> <<0>>, rec |-> (0 :> r), edges |-> {}] :
        r \in RecordsUpTo(MaxRef, 1, 0, withResid)}
    \cup
    UNION {{[order |-> <<0, 1>>, rec |-> (0 :> r1) @@ (1 :> r2), edges |-> {{0, 1}}] :
               r2 \in RecordsUpTo(MaxRefPair, 2, Cardinality(DOMAIN r1.found.nodes),
                                  withResid)} :
           r1 \in RecordsUpTo(MaxRefPair, 1, 0, withResid)}

\* The structure graph the records of a collection were found in.
MoleculeOf(coll) ==
    [nodes |-> [v \in UNION {DOMAIN coll.rec[i].found.nodes : i \in DOMAIN coll.rec} |->
                   LET i == CHOOSE j \in DOMAIN coll.rec : v \in DOMAIN coll.rec[j].found.nodes
                   IN  coll.rec[i].found.nodes[v]],
     edges |-> UNION {coll.rec[i].found.edges : i \in DOMAIN coll.rec}]

\* A caller invokes repair_graph(molecule, reference_graph).
InitRepair ==
    /\ pc = "repair_graph"
    /\ entry = "repair_graph"
    /\ exc = ""
    /\ delete_unknown = FALSE
    /\ force_field = EmptyMap
    /\ unmatchable = {}
    /\ system = <<>>
    /\ system0 = <<>>
    /\ pass = 1
    /\ mols = <<>>
    /\ kept = <<>>
    /\ idx = 1
    /\ \E withResid \in BOOLEAN :
           reference_graph \in Collections(withResid)
    /\ molecule = MoleculeOf(reference_graph)
    /\ residues = [order |-> <<>>, rec |-> EmptyMap, edges |-> {}]
    /\ ri = 1
    /\ missing = <<>>
    /\ added = FALSE
    /\ pos = 0
    /\ match0 = EmptyMap
    /\ synth = <<>>
    /\ stages = <<>>
    /\ log = <<>>
    /\ queued = 0
    /\ turns = EmptyMap
    /\ threads = <<>>

NextRepair == RepairSteps \/ RepairGraphReturn \/ RepairGraphRaise

\* repair_graph called on its own.
SpecRepair == InitRepair /\ [][NextRepair]_vars

\* repair_graph called on its own, every step of it eventually taken: the
\* code is sequential and no statement of it blocks.
FairRepair == SpecRepair /\ WF_vars(NextRepair)

\* A structure graph with one more atom, of a residue that no record of
\* the collection covers, bonded to the first atom if there is one.
WithBystander(mol) ==
    IF DOMAIN mol.nodes = {}
    THEN [nodes |-> (0 :> Attr("HOH", 9, "B", "OW", "O", 1)), edges |-> {}]
    ELSE LET b == Max(DOMAIN mol.nodes) + 1
         IN  [nodes |-> (b :> Attr("HOH", 9, "B", "OW", "O", b + 1)) @@ mol.nodes,
              edges |-> mol.edges \cup {{Min(DOMAIN mol.nodes), b}}]

\* A caller invokes repair_graph with a collection that does not cover the
\* whole structure graph.
InitPartial ==
    /\ pc = "repair_graph"
    /\ entry = "repair_graph"
    /\ exc = ""
    /\ delete_unknown = FALSE
    /\ force_field = EmptyMap
    /\ unmatchable = {}
    /\ system = <<>>
    /\ system0 = <<>>
    /\ pass = 1
    /\ mols = <<>>
    /\ kept = <<>>
    /\ idx = 1
    /\ \E withResid \in BOOLEAN :
           reference_graph \in Collections(withResid)
    /\ molecule = WithBystander(MoleculeOf(reference_graph))
    /\ residues = [order |-> <<>>, rec |-> EmptyMap, edges |-> {}]
    /\ ri = 1
    /\ missing = <<>>
    /\ added = FALSE
    /\ pos = 0
    /\ match0 = EmptyMap
    /\ synth = <<>>
    /\ stages = <<>>
    /\ log = <<>>
    /\ queued = 0
    /\ turns = EmptyMap
    /\ threads = <<>>

\* repair_graph called on its own on a partly covered structure graph.
SpecPartial == InitPartial /\ [][NextRepair]_vars

\* ------------------------------------------------------ residue partition
\* The key make_residue_graph groups atoms by.
ResKey(mol, v) ==
    <<mol.nodes[v].chain, mol.nodes[v].resid, mol.nodes[v].resname>>

\* The atoms reachable from the atoms S over bonds between atoms of one key.
RECURSIVE Component(_, _)
Component(mol, S) ==
    LET more == {w \in DOMAIN mol.nodes :
                    \E v \in S : /\ {v, w} \in mol.edges
                                 /\ ResKey(mol, w) = ResKey(mol, v)}
    IN  IF more \subseteq S THEN S ELSE Component(mol, S \cup more)

\* The subgraph of a graph on the nodes S, as a graph of its own.
Subgraph(g, S) ==
    [nodes |-> [v \in S \cap DOMAIN g.nodes |-> g.nodes[v]],
     edges |-> {e \in g.edges : e \subseteq S}]

\* make_residue_graph(mol): one node per connected group of atoms with the
\* same chain, resid and resname, numbered from 0 in the order of their
\* first atoms, and an edge between residues that share a bond.
MakeResidueGraph(mol) ==
    LET comps == {Component(mol, {v}) : v \in DOMAIN mol.nodes}
        firsts == SortedSeq({Min(c) : c \in comps})
        compOf(i) == Component(mol, {firsts[i + 1]})
        n == Len(firsts)
    IN  [order |-> [i \in 1..n |-> i - 1],
         rec |-> [i \in 0..(n - 1) |->
                    [chain |-> mol.nodes[firsts[i + 1]].chain,
                     resid |-> mol.nodes[firsts[i + 1]].resid,
                     resname |-> mol.nodes[firsts[i + 1]].resname,
                     graph |-> Subgraph(mol, compOf(i))]],
         edges |-> {{p[1], p[2]} :
                       p \in {q \in (0..(n - 1)) \X (0..(n - 1)) :
                                 /\ q[1] < q[2]
                                 /\ \E a \in compOf(q[1]), b \in compOf(q[2]) :
                                        {a, b} \in mol.edges}}]

\* ----------------------------------------------------------------- matcher
\* The injective mappings from D onto a set of the same size.
Bijections(D, R) ==
    {m \in [D -> R] : \A a, b \in D : m[a] = m[b] => a = b}

\* m maps nodes of g1 to nodes of g2 keeping the element and, both ways,
\* the bonds between the mapped nodes.
KeepsStructure(g1, g2, m) ==
    /\ \A a \in DOMAIN m : g1.nodes[a].element = g2.nodes[m[a]].element
    /\ \A a, b \in DOMAIN m :
          ({a, b} \in g1.edges) <=> ({m[a], m[b]} \in g2.edges)

\* isomorphism(g1, g2): the mappings {node of g1: node of g2} under which
\* the whole of g2 is an induced subgraph of g1, elements being equal.  The
\* direction is the one the source fixes: the call of line 83 is made under
\* "Assume reference >= residue" (line 82), the call of line 86, with the
\* arguments exchanged, for "reference < residue? I.e. PTM" (line 85), and
\* the call of line 109 is to map the reference onto the common subgraph of
\* a residue that has "too little atoms" (lines 91-98, 108), which only a
\* mapping from a part of the reference onto all of the second graph can do.
isomorphism(g1, g2) ==
    LET n2 == DOMAIN g2.nodes
    IN  UNION {{m \in Bijections(D, n2) : KeepsStructure(g1, g2, m)} :
                  D \in {X \in SUBSET DOMAIN g1.nodes :
                            Cardinality(X) = Cardinality(n2)}}

\* Line 87: a mapping turned around.
Inverted(m) == [v \in Range(m) |-> CHOOSE k \in DOMAIN m : m[k] = v]

\* The common induced subgraphs of g1 and g2 with k nodes, as mappings.
CommonSubgraphs(g1, g2, k) ==
    UNION {{m \in Bijections(D, R) : KeepsStructure(g1, g2, m)} :
              D \in {X \in SUBSET DOMAIN g1.nodes : Cardinality(X) = k},
              R \in {Y \in SUBSET DOMAIN g2.nodes : Cardinality(Y) = k}}

\* maximum_common_subgraph(g1, g2, ['element']): the mappings between the
\* largest common induced subgraphs; none when the graphs share no node.
maximum_common_subgraph(g1, g2) ==
    LET sizes == {k \in 1..Cardinality(DOMAIN g1.nodes) :
                     CommonSubgraphs(g1, g2, k) # {}}
    IN  IF sizes = {} THEN {} ELSE CommonSubgraphs(g1, g2, Max(sizes))

\* rate_match(reference, residue, m): the number of matched atoms whose
\* names agree.
rate_match(reference, residue, m) ==
    Cardinality({r \in DOMAIN m :
                    reference.nodes[r].atomname = residue.nodes[m[r]].atomname})

\* maxes(matches, key=rate_match): the best rated mappings.
maxes(reference, residue, matches) ==
    {m \in matches :
        \A o \in matches :
            rate_match(reference, residue, o) <= rate_match(reference, residue, m)}

\* ---------------------------------------------------------- make_reference
EmptyCollection == [order |-> <<>>, rec |-> EmptyMap, edges |-> {}]

\* Mutant of Outcomes: the common-subgraph solver runs for every residue,
\* whatever the isomorphism calls found.
OutcomesAlwaysMcs(reference, residue, stub) ==
    LET iso(a, b) == IF stub THEN {} ELSE isomorphism(a, b)
        mcs == maximum_common_subgraph(reference, residue)
        third(mcs_match) ==
            iso(reference, Subgraph(residue, Range(mcs_match)))
    IN  IF mcs = {}
        THEN {[kind |-> "ValueError", matches |-> {},
               stages |-> <<"isomorphism", "inverted", "mcs">>]}
        ELSE {[kind |-> IF third(mm) # {} THEN "matches" ELSE "none",
               matches |-> third(mm),
               stages |-> <<"isomorphism", "inverted", "mcs", "restricted">>] :
                 mm \in maxes(reference, residue, mcs)}

\* Lines 83-109 for one residue: what the matcher stages can leave in
\* matches, and the stages that ran.  With stub the isomorphism calls find
\* nothing.  max() at line 100 takes one of the best rated common subgraphs;
\* which one is up to the order in which the solver lists them, hence one
\* outcome for each.  max() of no common subgraph at all is the ValueError of
\* lines 102-104.
Outcomes(reference, residue, stub) ==
    LET iso(a, b) == IF stub THEN {} ELSE isomorphism(a, b)
        first  == iso(reference, residue)
        second == {Inverted(m) : m \in iso(residue, reference)}
        mcs    == maximum_common_subgraph(reference, residue)
        third(mcs_match) ==
            iso(reference, Subgraph(residue, Range(mcs_match)))
    IN  IF first # {}
        THEN {[kind |-> "matches", matches |-> first,
               stages |-> <<"isomorphism">>]}
        ELSE IF second # {}
        THEN {[kind |-> "matches", matches |-> second,
               stages |-> <<"isomorphism", "inverted">>]}
        ELSE IF mcs = {}
        THEN {[kind |-> "ValueError", matches |-> {},
               stages |-> <<"isomorphism", "inverted", "mcs">>]}
        ELSE {[kind |-> IF third(mm) # {} THEN "matches" ELSE "none",
               matches |-> third(mm),
               stages |-> <<"isomorphism", "inverted", "mcs", "restricted">>] :
                 mm \in maxes(reference, residue, mcs)}

\* Mutant of BestMatches: the candidates are not rated.
Unrated(reference, residue, matches) == matches

\* Line 117: the candidates are reduced to the best rated ones.
BestMatches(reference, residue, matches) == maxes(reference, residue, matches)

\* Lines 89-90, 113-114 and 119-122: the events of one residue.
MatchEvents(res, residx, out, ambiguous) ==
    (IF Len(out.stages) >= 3
     THEN <<Event("debug", "performance", "Doing MCS matching",
                  res.resname, res.resid, "", residx, -1)>>
     ELSE <<>>)
    \o (IF out.kind = "none"
        THEN <<Event("error", "inconsistent-data", "Can't find isomorphism",
                     res.resname, res.resid, "", residx, -1)>>
        ELSE <<>>)
    \o (IF ambiguous
        THEN <<Event("warning", "bad-atom-names", "More than one way to fit",
                     res.resname, res.resid, "", residx, -1)>>
        ELSE <<>>)

\* Lines 125-127: add_node(residx, ...) to the reference collection.
AddRecord(coll, residx, record) ==
    [coll EXCEPT !.order = Append(@, residx),
                 !.rec = (residx :> record) @@ @]

\* Lines 69-127: one turn of the loop over the residues.  The lookup of the
\* resname in the force field fails for an unknown residue (line 79); a
\* residue without candidate is skipped (line 115); otherwise one of the best
\* rated candidates becomes the record's match.
MatchResidue ==
    /\ pc = "make_reference"
    /\ ri <= Len(residues.order)
    /\ LET residx == residues.order[ri]
           res    == residues.rec[residx]
       IN  IF res.resname \notin DOMAIN force_field
           THEN /\ pc' = "except"
                /\ exc' = "KeyError"
                /\ UNCHANGED <<reference_graph, ri, stages, log>>
           ELSE \E out \in Outcomes(force_field[res.resname], res.graph,
                                    res.resname \in unmatchable) :
                  LET reference == force_field[res.resname]
                      best == BestMatches(reference, res.graph, out.matches)
                  IN  /\ stages' = Append(stages, out.stages)
                      /\ log' = log \o MatchEvents(res, residx, out,
                                                   Cardinality(best) > 1)
                      /\ IF out.kind = "ValueError"
                         THEN /\ pc' = "except"
                              /\ exc' = "ValueError"
                              /\ UNCHANGED <<reference_graph, ri>>
                         ELSE /\ UNCHANGED <<pc, exc>>
                              /\ ri' = ri + 1
                              /\ IF out.kind = "none"
                                 THEN UNCHANGED reference_graph
                                 ELSE \E match \in best :
                                        reference_graph' =
                                            AddRecord(reference_graph, residx,
                                                Record(res.chain, res.resname,
                                                       res.resid, reference,
                                                       res.graph, match))
    /\ UNCHANGED <<entry, delete_unknown, force_field, unmatchable, system,
                   system0, pass, mols, kept, idx, molecule, residues,
                   missing, added, pos, match0, synth>>
    /\ UNCHANGED <<queued, threads, turns>>

\* The enumerations of a finite set, each element once.
Orders(S) == {s \in [1..Cardinality(S) -> S] : Range(s) = S}

\* The edges of g that edges() lists from node u: those to the nodes that
\* come after u in the order of the nodes.
EdgesFrom(g, u) ==
    {e \in g.edges :
        /\ u \in e
        /\ \A w \in e \ {u} : Index(g.order, u) < Index(g.order, w)}

\* The listings of the edges from node u, each as the pair <<u, v>>: the
\* neighbours come in the order in which u's edges were added, which is
\* make_residue_graph's to choose.
ListedFrom(g, u) ==
    {[k \in DOMAIN s |-> <<u, IF s[k] = {u} THEN u
                               ELSE CHOOSE w \in s[k] : w # u>>] :
        s \in Orders(EdgesFrom(g, u))}

\* residues.edges(): what networkx can list for the residue graph g from
\* its i-th node on: node by node in the order of the nodes, each edge once,
\* from the end point that comes first.
RECURSIVE EdgeListings(_, _)
EdgeListings(g, i) ==
    IF i > Len(g.order)
    THEN {<<>>}
    ELSE {a \o b : a \in ListedFrom(g, g.order[i]),
                   b \in EdgeListings(g, i + 1)}

\* Line 128: the end points u1, v1, u2, v2, ... of the edges in the order in
\* which residues.edges() lists them.
RECURSIVE EdgeEnds(_)
EdgeEnds(listed) ==
    IF listed = <<>>
    THEN <<>>
    ELSE <<Head(listed)[1], Head(listed)[2]>> \o EdgeEnds(Tail(listed))

\* Line 128: the nodes of the collection after the end points ends were added
\* one by one: an end point that is no node yet is appended.
RECURSIVE AddEnds(_, _)
AddEnds(order, ends) ==
    IF ends = <<>>
    THEN order
    ELSE AddEnds(IF Head(ends) \in Range(order)
                 THEN order
                 ELSE Append(order, Head(ends)),
                 Tail(ends))

\* Line 128: add_edges_from(residues.edges()); networkx adds the end points
\* of an edge that are no node yet, without attributes, at the moment it
\* adds the edge.
AddEdgesFrom(coll, listed) ==
    LET new == Range(EdgeEnds(listed)) \ DOMAIN coll.rec
    IN  [order |-> AddEnds(coll.order, EdgeEnds(listed)),
         rec |-> [x \in new |-> NoRecord] @@ coll.rec,
         edges |-> coll.edges \cup {{e[1], e[2]} : e \in Range(listed)}]

\* Lines 128-129 and 290: the loop is over; the edges of the residue graph
\* are added as they are listed, make_reference returns and run_molecule
\* calls repair_graph.
FinishReference ==
    /\ pc = "make_reference"
    /\ ri > Len(residues.order)
    /\ \E listed \in EdgeListings(residues, 1) :
           reference_graph' = AddEdgesFrom(reference_graph, listed)
    /\ ri' = 1
    /\ pc' = "repair_graph"
    /\ UNCHANGED <<entry, exc, delete_unknown, force_field, unmatchable, system,
                   system0, pass, mols, kept, idx, molecule, residues,
                   missing, added, pos, match0, synth, stages, log>>
    /\ UNCHANGED <<queued, threads, turns>>

\* ------------------------------------------------------------- RepairGraph
\* Lines 295-297, 288-289 and 66-67: run_system takes the next molecule,
\* run_molecule copies it and make_reference partitions the copy.
StartMolecule ==
    /\ pc = "run_system"
    /\ idx <= Len(system)
    /\ molecule' = system[idx]
    /\ residues' = MakeResidueGraph(system[idx])
    /\ reference_graph' = EmptyCollection
    /\ ri' = 1
    /\ stages' = <<>>
    /\ synth' = <<>>
    /\ turns' = EmptyMap
    /\ pc' = "make_reference"
    /\ UNCHANGED <<entry, exc, delete_unknown, force_field, unmatchable, system,
                   system0, pass, mols, kept, idx, missing, added, pos, match0,
                   log>>
    /\ UNCHANGED <<queued, threads>>

\* Lines 279, 291 and 304-305: repair_graph and run_molecule return and
\* run_system keeps the repaired copy.
MoleculeDone ==
    /\ pc = "repair_graph"
    /\ entry = "run_system"
    /\ ri > Len(reference_graph.order)
    /\ mols' = Append(mols, molecule)
    /\ kept' = Append(kept, idx)
    /\ idx' = idx + 1
    /\ pc' = "run_system"
    /\ UNCHANGED <<entry, exc, delete_unknown, force_field, unmatchable, system,
                   system0, pass, molecule, residues, reference_graph, ri,
                   missing, added, pos, match0, synth, stages, log>>
    /\ UNCHANGED <<queued, threads, turns>>

\* Line 298: the exceptions run_system catches.
Caught(e) == e = "KeyError"

\* Lines 298-303 with delete_unknown: the molecule is dropped with a warning.
DropMolecule ==
    /\ pc = "except"
    /\ entry = "run_system"
    /\ Caught(exc)
    /\ delete_unknown
    /\ log' = Append(log, Event("warning", "unknown-residue",
                                "Can't recognize molecule", "", 0, "", -1, -1))
    /\ exc' = ""
    /\ idx' = idx + 1
    /\ pc' = "run_system"
    /\ UNCHANGED <<entry, delete_unknown, force_field, unmatchable, system,
                   system0, pass, mols, kept, molecule, residues,
                   reference_graph, ri, missing, added, pos, match0, synth,
                   stages>>
    /\ UNCHANGED <<queued, threads, turns>>

\* Lines 298-300, and any exception that is no KeyError: it leaves
\* run_system, and line 306 is not reached.
Propagate ==
    /\ pc = "except"
    /\ entry = "run_system"
    /\ ~(Caught(exc) /\ delete_unknown)
    /\ pc' = "raised"
    /\ UNCHANGED <<entry, exc, delete_unknown, force_field, unmatchable, system,
                   system0, pass, mols, kept, idx, molecule, residues,
                   reference_graph, ri, missing, added, pos, match0, synth,
                   stages, log>>
    /\ UNCHANGED <<queued, threads, turns>>

\* Line 306: the loop is over; system.molecules is assigned.
FinishSystem ==
    /\ pc = "run_system"
    /\ idx > Len(system)
    /\ system' = mols
    /\ pc' = "done"
    /\ UNCHANGED <<entry, exc, delete_unknown, force_field, unmatchable,
                   system0, pass, mols, kept, idx, molecule, residues,
                   reference_graph, ri, missing, added, pos, match0, synth,
                   stages, log>>
    /\ UNCHANGED <<queued, threads, turns>>

\* The caller runs the processor once more on the system it got back.
Rerun ==
    /\ pc = "done"
    /\ pass < MaxPass
    /\ pass' = pass + 1
    /\ system0' = system
    /\ mols' = <<>>
    /\ kept' = <<>>
    /\ idx' = 1
    /\ pc' = "run_system"
    /\ UNCHANGED <<entry, exc, delete_unknown, force_field, unmatchable, system,
                   molecule, residues, reference_graph, ri, missing, added,
                   pos, match0, synth, stages, log>>
    /\ UNCHANGED <<queued, threads, turns>>

\* ------------------------------------------------- inputs of run_system
\* A graph with the nodes 0..n-1 from a list of <<atomname, element>> and a
\* set of bonds.
GraphOf(resname, resid, chain, atoms, edges) ==
    [nodes |-> [v \in 0..(Len(atoms) - 1) |->
                   Attr(resname, resid, chain, atoms[v + 1][1],
                        atoms[v + 1][2], 0)],
     edges |-> edges]

\* A reference graph of the force field; its nodes carry atomname, element
\* and resname, and the key resid when withResid.
ReferenceOf(resname, atoms, edges, withResid) ==
    [order |-> [i \in 1..Len(atoms) |-> i - 1]]
    @@ GraphOf(resname, IF withResid THEN 1 ELSE 0, "", atoms, edges)

\* mol.force_field.reference_graphs: alanine reduced to N, CA and H; an
\* amine with two equivalent hydrogens; two carbons without a bond.
ForceField(withResid) ==
    ("ALA" :> ReferenceOf("ALA", <<<<"N", "N">>, <<"CA", "C">>, <<"H", "H">>>>,
                          {{0, 1}, {0, 2}}, withResid))
    @@ ("GLY" :> ReferenceOf("GLY", <<<<"N", "N">>, <<"H1", "H">>, <<"H2", "H">>>>,
                             {{0, 1}, {0, 2}}, withResid))
    @@ ("DIM" :> ReferenceOf("DIM", <<<<"C1", "C">>, <<"C2", "C">>>>,
                             {}, withResid))

\* A structure graph of the residues parts[1], parts[2], ... (each a graph
\* on the nodes 0..n-1), renumbered one after the other, atomid = id + 1,
\* with the bonds links between the residues.
RECURSIVE Joined(_, _)
Joined(parts, links) ==
    IF parts = <<>>
    THEN [nodes |-> EmptyMap, edges |-> links]
    ELSE LET head == Joined(SubSeq(parts, 1, Len(parts) - 1), {})
             base == Cardinality(DOMAIN head.nodes)
             last == parts[Len(parts)]
         IN  [nodes |-> [v \in base..(base + Cardinality(DOMAIN last.nodes) - 1) |->
                            [last.nodes[v - base] EXCEPT !.atomid = v + 1]]
                        @@ head.nodes,
              edges |-> head.edges \cup links
                        \cup {{base + p[1], base + p[2]} :
                                 p \in {q \in (DOMAIN last.nodes) \X (DOMAIN last.nodes) :
                                           {q[1], q[2]} \in last.edges}}]

\* The molecules a system is made of.
Molecules ==
    LET ala(resid) == GraphOf("ALA", resid, "A",
                          <<<<"N", "N">>, <<"CA", "C">>, <<"H", "H">>>>,
                          {{0, 1}, {0, 2}})
    IN
    { \* alanine as the reference has it
      Joined(<<ala(1)>>, {}),
      \* alanine with the atom names of another convention
      Joined(<<GraphOf("ALA", 1, "A",
                 <<<<"N1", "N">>, <<"C2", "C">>, <<"HN", "H">>>>,
                 {{0, 1}, {0, 2}})>>, {}),
      \* alanine without its hydrogen
      Joined(<<GraphOf("ALA", 1, "A",
                 <<<<"N", "N">>, <<"CA", "C">>>>, {{0, 1}})>>, {}),
      \* alanine with a further atom on CA
      Joined(<<GraphOf("ALA", 1, "A",
                 <<<<"N", "N">>, <<"CA", "C">>, <<"H", "H">>, <<"OX", "O">>>>,
                 {{0, 1}, {0, 2}, {1, 3}})>>, {}),
      \* alanine without its hydrogen and with a further atom on CA
      Joined(<<GraphOf("ALA", 1, "A",
                 <<<<"N", "N">>, <<"CA", "C">>, <<"OX", "O">>>>,
                 {{0, 1}, {1, 2}})>>, {}),
      \* a residue the force field does not know
      Joined(<<GraphOf("UNK", 1, "A", <<<<"X", "C">>>>, {})>>, {}),
      \* a residue called alanine that shares no element with it
      Joined(<<GraphOf("ALA", 1, "A", <<<<"OX", "O">>>>, {})>>, {}),
      \* one of the two carbons
      Joined(<<GraphOf("DIM", 1, "A", <<<<"C1", "C">>>>, {})>>, {}),
      \* the amine, hydrogens named by another convention
      Joined(<<GraphOf("GLY", 1, "A",
                 <<<<"N", "N">>, <<"HA", "H">>, <<"HB", "H">>>>,
                 {{0, 1}, {0, 2}})>>, {}),
      \* alanine bonded to an amine that lacks a hydrogen
      Joined(<<ala(1),
               GraphOf("GLY", 2, "A",
                 <<<<"N", "N">>, <<"H1", "H">>>>, {{0, 1}})>>, {{1, 3}}),
      \* two alanines bonded to each other
      Joined(<<ala(1), ala(2)>>, {{1, 3}}),
      \* alanine and an amine, both bonded to a second amine
      Joined(<<ala(1),
               GraphOf("GLY", 2, "A",
                 <<<<"N", "N">>, <<"H1", "H">>>>, {{0, 1}}),
               GraphOf("GLY", 3, "A",
                 <<<<"N", "N">>, <<"H1", "H">>>>, {{0, 1}})>>,
             {{1, 5}, {4, 5}})
    }

\* The systems handed to run_system: up to MaxMol molecules.
Systems == UNION {[1..n -> Molecules] : n \in 1..MaxMol}

\* A caller builds RepairGraph(delete_unknown) and calls run_system(system);
\* stubbed ranges over the sets of resnames the matcher may be stubbed for.
InitSystem(stubbed) ==
    /\ pc = "run_system"
    /\ entry = "run_system"
    /\ exc = ""
    /\ delete_unknown \in BOOLEAN
    /\ \E withResid \in BOOLEAN : force_field = ForceField(withResid)
    /\ unmatchable \in stubbed
    /\ system \in Systems
    /\ system0 = system
    /\ pass = 1
    /\ mols = <<>>
    /\ kept = <<>>
    /\ idx = 1
    /\ molecule = EmptyGraph
    /\ residues = EmptyCollection
    /\ reference_graph = EmptyCollection
    /\ ri = 1
    /\ missing = <<>>
    /\ added = FALSE
    /\ pos = 0
    /\ match0 = EmptyMap
    /\ synth = <<>>
    /\ stages = <<>>
    /\ log = <<>>
    /\ queued = 0
    /\ turns = EmptyMap
    /\ threads = <<>>

Init == InitSystem({{}})

\* The steps of run_system, run_molecule and make_reference.
SystemSteps ==
    \/ StartMolecule
    \/ MatchResidue
    \/ FinishReference
    \/ MoleculeDone
    \/ DropMolecule
    \/ Propagate
    \/ FinishSystem
    \/ Rerun

Next == SystemSteps \/ RepairSteps

\* run_system with the matcher as specified.
Spec == Init /\ [][Next]_vars

InitStub == InitSystem({{"ALA"}, {"GLY"}})

\* run_system with a matcher that finds no candidate for some resname.
SpecStub == InitStub /\ [][Next]_vars

\* ----------------------------------------------- residues repaired at once
\* The loop of lines 260-277 with one worker per record, all on the same
\* structure graph.  A worker runs the statements of repair_residue and of
\* the loop body in order; the workers interleave between statements, and
\* line 183 (reading max(molecule) + 1) is a statement of its own.

\* What the steps of the workers leave alone.
ParFrame ==
    UNCHANGED <<pc, entry, exc, delete_unknown, force_field, unmatchable,
                system, system0, pass, mols, kept, idx, residues, ri, missing,
                added, pos, match0, stages, queued>>

\* The record worker w repairs.
RecOf(w) == reference_graph.rec[threads[w].rec]

\* Lines 262 and 137-169 for worker w; the lookups fail as they do in
\* EnterResidue, and the worker ends with the exception.
ParEnter ==
    \E w \in DOMAIN threads :
        /\ threads[w].pc = "start"
        /\ turns' = Call(turns, threads[w].rec)
        /\ IF ~RecordKeysOK(RecOf(w))
           THEN /\ threads' = [threads EXCEPT ![w].pc = "except",
                                              ![w].exc = "KeyError",
                                              ![w].missing = <<>>]
                /\ UNCHANGED <<molecule, reference_graph, log>>
           ELSE LET n     == Len(RecOf(w).reference.order)
                    stop  == Step1Stop(RecOf(w).reference, RecOf(w).match,
                                       molecule.nodes, RecOf(w).found.nodes)
                    done  == Upto(RecOf(w).reference, stop - 1)
                    begun == Upto(RecOf(w).reference, Min({stop, n}))
                IN  /\ molecule' = [molecule EXCEPT
                           !.nodes = CanonNodes(@, begun, RecOf(w).match)]
                    /\ reference_graph' = [reference_graph EXCEPT
                           !.rec[threads[w].rec].found.nodes =
                               CanonFound(@, done, RecOf(w).match)]
                    /\ log' = log \o MissingEvents(RecOf(w),
                                         MissingOf(done, RecOf(w).match),
                                         threads[w].rec)
                    /\ threads' =
                           IF stop > n
                           THEN [threads EXCEPT
                                    ![w].pc = "while",
                                    ![w].missing = MissingOf(done, RecOf(w).match),
                                    ![w].added = TRUE]
                           ELSE [threads EXCEPT
                                    ![w].pc = "except",
                                    ![w].exc = "KeyError",
                                    ![w].missing = MissingOf(done, RecOf(w).match)]
        /\ UNCHANGED synth
        /\ ParFrame

\* Lines 170-172 for worker w.
ParWhile ==
    \E w \in DOMAIN threads :
        /\ threads[w].pc = "while"
        /\ threads' = IF WhileCond(threads[w].missing, threads[w].added)
                      THEN [threads EXCEPT ![w].pc = "for", ![w].added = FALSE,
                                           ![w].pos = 0]
                      ELSE [threads EXCEPT ![w].pc = "report"]
        /\ UNCHANGED <<molecule, reference_graph, synth, log, turns>>
        /\ ParFrame

\* Lines 172-176 for worker w.
ParSkip ==
    \E w \in DOMAIN threads :
        /\ threads[w].pc = "for"
        /\ threads[w].pos < Len(threads[w].missing)
        /\ AllMissing(RecOf(w).reference, threads[w].missing,
                      threads[w].missing[threads[w].pos + 1])
        /\ threads' = [threads EXCEPT ![w].pos = @ + 1]
        /\ UNCHANGED <<molecule, reference_graph, synth, log, turns>>
        /\ ParFrame

\* Lines 172-183 for worker w: the atom is popped and the id is read.
ParRead ==
    \E w \in DOMAIN threads :
        /\ threads[w].pc = "for"
        /\ threads[w].pos < Len(threads[w].missing)
        /\ ~AllMissing(RecOf(w).reference, threads[w].missing,
                       threads[w].missing[threads[w].pos + 1])
        /\ LET r == threads[w].missing[threads[w].pos + 1]
               popped == [threads EXCEPT
                             ![w].added = AddedFlag,
                             ![w].missing = Pop(@, Index(@, r)),
                             ![w].pos = @ + 1,
                             ![w].ref_idx = r]
           IN  threads' = IF DOMAIN molecule.nodes = {}
                          THEN [popped EXCEPT ![w].pc = "except",
                                              ![w].exc = "ValueError"]
                          ELSE [popped EXCEPT ![w].pc = "add",
                                              ![w].res_idx = NewNodeId(molecule),
                                              ![w].seen = Len(synth)]
        /\ UNCHANGED <<molecule, reference_graph, synth, log, turns>>
        /\ ParFrame

\* Lines 186-217 for worker w: the node is created under the id read before.
ParAdd ==
    \E w \in DOMAIN threads :
        /\ threads[w].pc = "add"
        /\ LET r        == threads[w].ref_idx
               res_idx  == threads[w].res_idx
               node     == NewNode(RecOf(w), r, res_idx)
               match    == Register(RecOf(w).match, r, res_idx)
               withnode == [molecule EXCEPT !.nodes = AddNode(@, res_idx, node)]
               edges    == NewEdges(withnode, RecOf(w).reference, match, r, res_idx)
           IN  /\ reference_graph' = [reference_graph EXCEPT
                      !.rec[threads[w].rec].match = match,
                      !.rec[threads[w].rec].found.nodes =
                          AddNode(@, res_idx, node)]
               /\ molecule' = [withnode EXCEPT !.edges = @ \cup edges]
               /\ log' = Append(log, AddingEvent(node, threads[w].rec, r))
               /\ synth' = Append(synth,
                      [rec |-> threads[w].rec, ref |-> r, node |-> res_idx,
                       known |-> Nbrs(RecOf(w).reference, r) \cap DOMAIN RecOf(w).match,
                       seen |-> threads[w].seen])
               /\ threads' = IF Cardinality(edges) # 0
                             THEN [threads EXCEPT ![w].pc = "for"]
                             ELSE [threads EXCEPT ![w].pc = "except",
                                                  ![w].exc = "AssertionError"]
        /\ UNCHANGED turns
        /\ ParFrame

\* Line 172 for worker w: the iterator is exhausted.
ParEnd ==
    \E w \in DOMAIN threads :
        /\ threads[w].pc = "for"
        /\ threads[w].pos >= Len(threads[w].missing)
        /\ threads' = [threads EXCEPT ![w].pc = "while"]
        /\ UNCHANGED <<molecule, reference_graph, synth, log, turns>>
        /\ ParFrame

\* Lines 218-224 for worker w.
ParReport ==
    \E w \in DOMAIN threads :
        /\ threads[w].pc = "report"
        /\ LET said == ReportedPrefix(RecOf(w).reference, threads[w].missing)
           IN  /\ log' = log \o [i \in DOMAIN said |->
                                   ReportEvent(RecOf(w).reference, said[i],
                                               threads[w].rec)]
               /\ threads' = IF said = threads[w].missing
                             THEN [threads EXCEPT ![w].pc = "mark"]
                             ELSE [threads EXCEPT ![w].pc = "except",
                                                  ![w].exc = "KeyError"]
               /\ turns' = IF said = threads[w].missing
                           THEN Return(turns, threads[w].rec)
                           ELSE turns
        /\ UNCHANGED <<molecule, reference_graph, synth>>
        /\ ParFrame

\* Lines 264-277 for worker w, whose turn is over then; line 276 fails as
\* it does in MarkExtra.
ParMark ==
    \E w \in DOMAIN threads :
        /\ threads[w].pc = "mark"
        /\ IF Extra(RecOf(w).found, RecOf(w).match) \subseteq DOMAIN molecule.nodes
           THEN /\ molecule' = [molecule EXCEPT
                       !.nodes = MarkPTM(@, Extra(RecOf(w).found, RecOf(w).match))]
                /\ reference_graph' = [reference_graph EXCEPT
                       !.rec[threads[w].rec].found.nodes =
                           MarkPTM(@, Extra(RecOf(w).found, RecOf(w).match))]
                /\ threads' = [threads EXCEPT ![w].pc = "done"]
                /\ turns' = TurnOver(turns, threads[w].rec)
           ELSE /\ \E flagged \in FlaggedBeforeFailure(
                                      Extra(RecOf(w).found, RecOf(w).match),
                                      molecule.nodes) :
                       /\ molecule' = [molecule EXCEPT
                              !.nodes = MarkPTM(@, flagged)]
                       /\ reference_graph' = [reference_graph EXCEPT
                              !.rec[threads[w].rec].found.nodes =
                                  MarkPTM(@, flagged)]
                /\ threads' = [threads EXCEPT ![w].pc = "except",
                                              ![w].exc = "KeyError"]
                /\ UNCHANGED turns
        /\ UNCHANGED <<synth, log>>
        /\ ParFrame

\* The collections with two records.
ParCollections(withResid) ==
    {c \in Collections(withResid) : Len(c.order) = 2}

\* One worker per record is started on the structure graph.
InitPar ==
    /\ pc = "parallel"
    /\ entry = "parallel"
    /\ exc = ""
    /\ delete_unknown = FALSE
    /\ force_field = EmptyMap
    /\ unmatchable = {}
    /\ system = <<>>
    /\ system0 = <<>>
    /\ pass = 1
    /\ mols = <<>>
    /\ kept = <<>>
    /\ idx = 1
    /\ \E withResid \in BOOLEAN :
           reference_graph \in ParCollections(withResid)
    /\ molecule = MoleculeOf(reference_graph)
    /\ residues = EmptyCollection
    /\ ri = 1
    /\ missing = <<>>
    /\ added = FALSE
    /\ pos = 0
    /\ match0 = EmptyMap
    /\ synth = <<>>
    /\ stages = <<>>
    /\ log = <<>>
    /\ queued = 0
    /\ turns = EmptyMap
    /\ threads = [w \in DOMAIN reference_graph.order |->
                     [pc |-> "start", rec |-> reference_graph.order[w],
                      missing |-> <<>>, added |-> FALSE, pos |-> 0,
                      ref_idx |-> -1, res_idx |-> -1, seen |-> 0, exc |-> ""]]

NextPar ==
    \/ ParEnter
    \/ ParWhile
    \/ ParSkip
    \/ ParRead
    \/ ParAdd
    \/ ParEnd
    \/ ParReport
    \/ ParMark

\* The residues of one molecule repaired by interleaved workers.
SpecPar == InitPar /\ [][NextPar]_vars

\* ================================================================== claims
\* The record at position i of the collection has been repaired:
\* repair_residue has returned for it.
Repaired(i) ==
    /\ i \in DOMAIN reference_graph.order
    /\ reference_graph.order[i] \in DOMAIN turns
    /\ turns[reference_graph.order[i]] \in {"returned", "over"}

RecAt(i) == reference_graph.rec[reference_graph.order[i]]

\* repair_residue is running, or has just returned, for the record Cur.
InResidue == pc \in {"while", "for", "report", "mark"}

\* An error event "Could not reconstruct atom" was emitted for reference
\* atom r of record residx.
Reported(residx, r) ==
    \E k \in DOMAIN log :
        /\ log[k].level = "error"
        /\ log[k].what = "Could not reconstruct atom"
        /\ log[k].rec = residx
        /\ log[k].ref = r

Injective(f) == \A a, b \in DOMAIN f : f[a] = f[b] => a = b

\* C1: every synthesized atom has at least one bonded neighbour in the
\* structure graph from the moment it is added on, and the assertion
\* "neighbours != 0" of line 217 never fails.
C1_SynthesizedAtomHasNeighbour ==
    /\ exc # "AssertionError"
    /\ \A i \in DOMAIN synth :
          Nbrs(molecule, synth[i].node) \ {synth[i].node} # {}

\* C1 witness: repair ended after two atoms were synthesized for one record,
\* the second one next to no atom of the initial match: its neighbour in the
\* structure graph is the atom synthesized first.
C1_Witness ==
    /\ pc = "returned"
    /\ Len(reference_graph.order) = 1
    /\ Len(synth) >= 2
    /\ synth[2].known \cap DOMAIN match0 = {}

\* C2: once repair_residue has returned for a record, every reference node
\* is either a key of match whose value is a node of the structure graph, or
\* was reported as not reconstructable: exactly one of the two.
C2_ResolvedOrReported ==
    \A i \in DOMAIN reference_graph.order :
        Repaired(i) =>
            \A r \in DOMAIN RecAt(i).reference.nodes :
                (/\ r \in DOMAIN RecAt(i).match
                 /\ RecAt(i).match[r] \in DOMAIN molecule.nodes)
                    # Reported(reference_graph.order[i], r)

\* C2 witness: a repaired record with an atom matched from the start, a
\* synthesized atom and a reported atom.
C2_Witness ==
    /\ pc = "returned"
    /\ \E i \in DOMAIN reference_graph.order :
          /\ \E r \in DOMAIN RecAt(i).reference.nodes :
                Reported(reference_graph.order[i], r)
          /\ \E k \in DOMAIN synth : synth[k].rec = reference_graph.order[i]
          /\ Cardinality(DOMAIN RecAt(i).match) >= 2

\* C3: after repair_graph, every node of a record's found that is no value
\* of the record's match carries PTM_atom on the structure graph and on found.
C3_ExtraAtomsFlagged ==
    pc = "returned" =>
        \A i \in DOMAIN reference_graph.order :
            \A v \in DOMAIN RecAt(i).found.nodes \ Range(RecAt(i).match) :
                /\ molecule.nodes[v].PTM_atom
                /\ RecAt(i).found.nodes[v].PTM_atom

\* C3 witness: repair_graph returned for two records, one with an atom
\* outside its match and one that had an atom synthesized.
C3_Witness ==
    /\ pc = "returned"
    /\ Len(reference_graph.order) = 2
    /\ \E i \in DOMAIN reference_graph.order :
          DOMAIN RecAt(i).found.nodes \ Range(RecAt(i).match) # {}
    /\ synth # <<>>

\* C9: the match of every record is injective in every state during and
\* after repair, and each entry registered for a synthesized atom maps to a
\* node id that was no value of the match when repair_residue started nor
\* was given to an atom synthesized before.
C9_MatchInjective ==
    /\ \A i \in DOMAIN reference_graph.order : Injective(RecAt(i).match)
    /\ \A k \in DOMAIN synth :
          /\ \A j \in 1..(k - 1) : synth[j].node # synth[k].node
          /\ (InResidue /\ synth[k].rec = CurIdx) =>
                 synth[k].node \notin Range(match0)

\* C9 witness: a record whose match started with two entries got two more.
C9_Witness ==
    /\ pc = "mark"
    /\ Cardinality(DOMAIN match0) >= 1
    /\ Cardinality(DOMAIN Cur.match) >= Cardinality(DOMAIN match0) + 2

\* C10: an atom is synthesized only when at least one of its reference
\* neighbours is a key of match at that moment, and when the loop has ended
\* every atom left in missing has all its reference neighbours in missing.
C10_OnlyWithResolvedNeighbour ==
    /\ \A k \in DOMAIN synth : synth[k].known # {}
    /\ pc = "report" =>
          \A a \in Range(missing) :
              Nbrs(Cur.reference, a) \subseteq Range(missing)

\* C10 witness: the loop ended with an atom left that stood in the queue
\* right behind an atom that was synthesized, so that the pop made the
\* iterator step over it in that pass.
C10_Witness ==
    /\ pc = "report"
    /\ LET q == MissingOf(Cur.reference, match0)
       IN  \E k \in DOMAIN synth, j \in DOMAIN missing :
               /\ synth[k].rec = CurIdx
               /\ Index(q, missing[j]) = Index(q, synth[k].ref) + 1

\* C7: when the loop of repair_residue ends with atoms left in missing, each
\* of them gets exactly one error event that names the residue being
\* repaired and the atom, and repair_residue returns without raising, so
\* that repair_graph goes on with the flags and the next record.
C7_LeftAtomsReportedWithoutRaising ==
    (/\ ri <= Len(reference_graph.order)
     /\ pc \in {"mark", "except", "raised"}
     /\ Cur.has
     /\ missing # <<>>) =>
        /\ pc = "mark"
        /\ \A i \in DOMAIN missing :
              /\ Cardinality({k \in DOMAIN log :
                                 /\ log[k].level = "error"
                                 /\ log[k].rec = CurIdx
                                 /\ log[k].ref = missing[i]}) = 1
              /\ \A k \in DOMAIN log :
                    (/\ log[k].level = "error"
                     /\ log[k].rec = CurIdx
                     /\ log[k].ref = missing[i]) =>
                        /\ log[k].resname = Cur.resname
                        /\ log[k].resid = Cur.resid
                        /\ log[k].atomname = Cur.reference.nodes[missing[i]].atomname

\* ------------------------------------------------ claims about run_system
\* repair_graph is at work for the molecule run_system took last.
InRepair ==
    /\ entry = "run_system"
    /\ pc \in {"repair_graph", "while", "for", "report", "mark"}

\* The matcher stages make_reference ran for the residue of record residx.
StagesOf(residx) == stages[residx + 1]

\* The residue of record residx as make_reference found it.
FoundAtFirst(residx) == residues.rec[residx].graph

\* A "Missing atom" event of the current run for record residx.
QueuedFor(residx) ==
    \E k \in DOMAIN log :
        /\ log[k].what = "Missing atom"
        /\ log[k].rec = residx
        /\ log[k].mol = idx
        /\ log[k].pass = pass

\* No reference atom of record residx was queued or synthesized.
NothingMissing(residx) ==
    /\ ~QueuedFor(residx)
    /\ \A k \in DOMAIN synth : synth[k].rec # residx

\* No atom of record residx carries the flag PTM_atom.
NothingMarked(residx) ==
    \A v \in DOMAIN reference_graph.rec[residx].found.nodes :
        /\ ~reference_graph.rec[residx].found.nodes[v].PTM_atom
        /\ v \in DOMAIN molecule.nodes => ~molecule.nodes[v].PTM_atom

\* C4 as stated: whenever one of the two isomorphism calls of lines 83-87
\* finds a candidate for a residue, repairing the residue queues and adds
\* no reference atom and flags no atom of the residue.
C4_IsomorphicResidueNothingMissingNothingMarked ==
    InRepair =>
        \A residx \in Range(reference_graph.order) :
            Len(StagesOf(residx)) <= 2 =>
                NothingMissing(residx) /\ NothingMarked(residx)

\* repair_residue was called for record residx since run_molecule took the
\* molecule.
Entered(residx) == residx \in DOMAIN turns

\* The turn of the loop of line 260 for record residx is over.
Finished(residx) == residx \in DOMAIN turns /\ turns[residx] = "over"

\* The reference atoms synthesized for record residx in the current run.
AddedFor(residx) ==
    {synth[k].ref : k \in {j \in DOMAIN synth : synth[j].rec = residx}}

\* The reference atoms of record residx that make_reference matched.
MatchedAtFirst(residx) ==
    DOMAIN reference_graph.rec[residx].match \ AddedFor(residx)

\* The reference atoms the residue of record residx lacks: those that
\* make_reference left without a match.
LackedBy(residx) ==
    DOMAIN reference_graph.rec[residx].reference.nodes \ MatchedAtFirst(residx)

\* The reference atoms of record residx for which the current run logged
\* the event what.
LoggedFor(residx, what) ==
    {log[k].ref : k \in {j \in DOMAIN log : /\ log[j].what = what
                                             /\ log[j].rec = residx
                                             /\ log[j].mol = idx
                                             /\ log[j].pass = pass}}

\* The atoms of the residue of record residx that are outside its match.
OutsideMatch(residx) ==
    Extra(reference_graph.rec[residx].found, reference_graph.rec[residx].match)

\* The atoms of the residue of record residx that carry PTM_atom, on found
\* or on the structure graph.
Flagged(residx) ==
    {v \in DOMAIN reference_graph.rec[residx].found.nodes :
        \/ reference_graph.rec[residx].found.nodes[v].PTM_atom
        \/ v \in DOMAIN molecule.nodes /\ molecule.nodes[v].PTM_atom}

\* The atoms of the residue of record residx that carried PTM_atom when
\* make_reference took the residue from the structure graph.
FlaggedAtFirst(residx) ==
    {v \in DOMAIN FoundAtFirst(residx).nodes :
        FoundAtFirst(residx).nodes[v].PTM_atom}

\* C4, amended: for a residue for which one of the two isomorphism calls of
\* lines 83-87 finds a candidate, every atom of the smaller of residue and
\* reference is matched; repair queues exactly the reference atoms the
\* residue lacks (as many as the reference has more), adds no other atom,
\* and when it is done with the residue has added or else reported each of
\* them; it sets PTM_atom on exactly the residue atoms outside the match (as
\* many as the residue has more), when it is done with the residue and not
\* before, and the flags the residue came with stay; for a residue it is
\* done with, it queued no atom and flagged no atom exactly if residue and
\* reference have the same number of atoms.
C4_IsomorphicResidueBySize ==
    InRepair =>
        \A residx \in Range(reference_graph.order) :
            Len(StagesOf(residx)) <= 2 =>
                LET nref   == Cardinality(DOMAIN reference_graph.rec[residx].reference.nodes)
                    nfound == Cardinality(DOMAIN FoundAtFirst(residx).nodes)
                IN  /\ reference_graph.rec[residx].has
                    /\ Cardinality(MatchedAtFirst(residx)) = Min({nref, nfound})
                    /\ Cardinality(LackedBy(residx)) = Max({nref - nfound, 0})
                    /\ Cardinality(OutsideMatch(residx)) = Max({nfound - nref, 0})
                    /\ LoggedFor(residx, "Missing atom")
                          = IF Entered(residx) THEN LackedBy(residx) ELSE {}
                    /\ AddedFor(residx) \subseteq LoggedFor(residx, "Missing atom")
                    /\ Flagged(residx)
                          = FlaggedAtFirst(residx)
                              \cup (IF Finished(residx)
                                    THEN OutsideMatch(residx) ELSE {})
                    /\ Finished(residx) =>
                          /\ \A r \in LackedBy(residx) :
                                 (r \in AddedFor(residx))
                                     # (r \in LoggedFor(residx, "Could not reconstruct atom"))
                          /\ (NothingMissing(residx) /\ OutsideMatch(residx) = {})
                                 <=> (nref = nfound)

\* The first run is done with the residues of a molecule: one residue has
\* fewer atoms than its reference and got an atom added; a molecule repaired
\* before it, whose residue has more atoms than its reference, was kept with
\* an atom flagged.
C4_Witness ==
    /\ InRepair
    /\ pass = 1
    /\ pc = "repair_graph"
    /\ ri > Len(reference_graph.order)
    /\ \E residx \in Range(reference_graph.order) :
          /\ Len(StagesOf(residx)) <= 2
          /\ Cardinality(DOMAIN FoundAtFirst(residx).nodes)
                < Cardinality(DOMAIN reference_graph.rec[residx].reference.nodes)
          /\ AddedFor(residx) # {}
    /\ \E m \in DOMAIN mols :
          /\ Cardinality(DOMAIN system0[kept[m]].nodes) = 4
          /\ \E v \in DOMAIN mols[m].nodes : mols[m].nodes[v].PTM_atom

\* C5: the reference collection handed to repair_graph holds no node for a
\* residue that make_reference skipped, and repair_graph does not fail on
\* such a node.
C5_SkippedResidueNotInCollection ==
    entry = "run_system" =>
        /\ \A residx \in Range(reference_graph.order) :
               reference_graph.rec[residx].has
        /\ ~(/\ pc = "except"
             /\ exc = "KeyError"
             /\ ri <= Len(reference_graph.order)
             /\ ~Cur.has)

\* The molecule mentions a resname the force field has no reference for.
Unknown(mol) ==
    \E v \in DOMAIN mol.nodes : mol.nodes[v].resname \notin DOMAIN force_field

\* The indices of the molecules of the system whose resnames are all known.
Known(sys) == SortedSeq({j \in DOMAIN sys : ~Unknown(sys[j])})

\* C6: without delete_unknown no molecule with an unknown resname is
\* repaired, run_system raises and system.molecules stays as it was; with
\* delete_unknown system.molecules ends as the repaired copies of exactly
\* the molecules without unknown resname, in their order.
C6_UnknownMoleculeRaisedOrDropped ==
    entry = "run_system" =>
        /\ \A k \in DOMAIN kept : ~Unknown(system0[kept[k]])
        /\ pc = "raised" => system = system0
        /\ (pc = "done" /\ ~delete_unknown) =>
               \A j \in DOMAIN system0 : ~Unknown(system0[j])
        /\ (pc = "done" /\ delete_unknown) =>
               /\ kept = Known(system0)
               /\ system = mols
               /\ Len(mols) = Len(kept)

\* Every residue of the molecule being repaired was matched atom for atom:
\* an isomorphism call found the candidate and residue and reference have
\* the same number of atoms.
FullyMatched ==
    \A residx \in Range(residues.order) :
        /\ residx \in DOMAIN reference_graph.rec
        /\ reference_graph.rec[residx].has
        /\ Len(StagesOf(residx)) <= 2
        /\ Cardinality(DOMAIN reference_graph.rec[residx].reference.nodes)
              = Cardinality(DOMAIN FoundAtFirst(residx).nodes)

\* Two structure graphs have the same nodes, bonds and node attributes,
\* the cached per-atom graph of line 151 aside.
SameStructure(a, b) ==
    /\ DOMAIN a.nodes = DOMAIN b.nodes
    /\ a.edges = b.edges
    /\ \A v \in DOMAIN a.nodes \cap DOMAIN b.nodes :
           [a.nodes[v] EXCEPT !.graph = FALSE] = [b.nodes[v] EXCEPT !.graph = FALSE]

LoopSafe ==
    /\ pc = "report" => (missing = <<>> \/ ~added)
    /\ pc = "for" =>
          /\ queued >= 1
          /\ Len(missing) <= queued
          /\ added <=> Len(missing) < queued
    /\ \A j, k \in DOMAIN synth :
          (j < k /\ synth[j].rec = synth[k].rec) => synth[j].ref # synth[k].ref

\* C11: the reconstruction loop always terminates: once entered it reaches
\* the report of lines 218-224 (or an exception), it stops exactly on an
\* empty queue or a pass without addition, every other pass shrinks the
\* queue, and no atom is synthesized twice.
C11_LoopTerminates ==
    /\ []LoopSafe
    /\ (pc \in {"while", "for"}) ~> (pc \in {"report", "except"})

\* C11 witness: the loop stopped on a pass that added nothing, with atoms
\* left, after an earlier pass had added an atom for the same record.
C11_Witness ==
    /\ pc = "report"
    /\ missing # <<>>
    /\ ~added
    /\ \E k \in DOMAIN synth : synth[k].rec = CurIdx

\* ------------------------------------------------ claims about node ids
\* The step synthesizes an atom.
Synthesizes == Len(synth') = Len(synth) + 1

\* The node id given to the atom the step synthesizes.
Allocated == synth'[Len(synth')].node

\* The ids of the synthesized atoms increase in the order of synthesis,
\* across the records, and each such atom is a node of the structure graph
\* whose atomid is its id + 1.
IdsIncrease ==
    /\ \A j, k \in DOMAIN synth : j < k => synth[j].node < synth[k].node
    /\ \A k \in DOMAIN synth :
          /\ synth[k].node \in DOMAIN molecule.nodes
          /\ molecule.nodes[synth[k].node].atomid = synth[k].node + 1

\* C12: every synthesized atom gets the id max(molecule) + 1 of that moment:
\* an id that is no node of the structure graph yet and is greater than
\* every id in it and every id allocated before, so that the new node
\* replaces no atom; its atomid is the id + 1.
C12_FreshNodeIds ==
    /\ []IdsIncrease
    /\ [][Synthesizes =>
            /\ Allocated = Max(DOMAIN molecule.nodes) + 1
            /\ Allocated \notin DOMAIN molecule.nodes
            /\ \A v \in DOMAIN molecule.nodes : v < Allocated
            /\ \A k \in DOMAIN synth : synth[k].node < Allocated
            /\ DOMAIN molecule'.nodes = DOMAIN molecule.nodes \cup {Allocated}
            /\ \A v \in DOMAIN molecule.nodes :
                   molecule'.nodes[v] = molecule.nodes[v]
            /\ molecule'.nodes[Allocated].atomid = Allocated + 1]_vars

\* C12 witness: repair_graph returned after atoms were synthesized for two
\* different records of one molecule.
C12_Witness ==
    /\ pc = "returned"
    /\ \E j, k \in DOMAIN synth : synth[j].rec # synth[k].rec

\* --------------------------------------------------- claims about bonds
\* Reference atom r of the record with index residx was synthesized.
SynthesizedFor(residx, r) ==
    \E k \in DOMAIN synth : synth[k].rec = residx /\ synth[k].ref = r

\* C13: a synthesized atom is bonded to the structure node of every
\* reference neighbour that was a key of match when it was synthesized, and
\* every reference edge whose end points are both keys of match and of
\* which one at least was synthesized has its edge in the structure graph.
C13_SynthesizedAtomsBonded ==
    /\ \A k \in DOMAIN synth :
          \A n \in synth[k].known :
              {reference_graph.rec[synth[k].rec].match[n], synth[k].node}
                  \in molecule.edges
    /\ \A residx \in Range(reference_graph.order) :
          LET rec == reference_graph.rec[residx]
          IN  \A u, v \in DOMAIN rec.match :
                  (/\ {u, v} \in rec.reference.edges
                   /\ SynthesizedFor(residx, u) \/ SynthesizedFor(residx, v)) =>
                      {rec.match[u], rec.match[v]} \in molecule.edges

\* C13 witness: repair_graph returned after an atom was synthesized next to
\* two resolved neighbours, one of them synthesized itself.
C13_Witness ==
    /\ pc = "returned"
    /\ \E k \in DOMAIN synth :
          /\ Cardinality(synth[k].known) >= 2
          /\ \E n \in synth[k].known : SynthesizedFor(synth[k].rec, n)

\* ------------------------------------------ claims about make_reference
\* The stages in the order of lines 83, 86, 100 and 109.
AllStages == <<"isomorphism", "inverted", "mcs", "restricted">>

\* The "Doing MCS matching" events of the current run for residue residx.
McsEvents(residx) ==
    {k \in DOMAIN log :
        /\ log[k].what = "Doing MCS matching"
        /\ log[k].rec = residx
        /\ log[k].mol = idx
        /\ log[k].pass = pass}

\* C14: for every residue make_reference has handled, the stages that ran
\* are a prefix of the fixed order; the inverted call ran only if the first
\* call found nothing, the common-subgraph solver only if both found
\* nothing, and it ran at most once; a residue with a candidate from the
\* first or the inverted call never reached the solver.
C14_StagesInOrder ==
    (entry = "run_system" /\ pc \notin {"run_system", "done"}) =>
        \A i \in DOMAIN stages :
            LET residx    == residues.order[i]
                res       == residues.rec[residx]
                reference == force_field[res.resname]
                first     == isomorphism(reference, res.graph)
                second    == isomorphism(res.graph, reference)
                ran       == stages[i]
            IN  /\ Len(ran) \in 1..4
                /\ ran = SubSeq(AllStages, 1, Len(ran))
                /\ Len(ran) = 1 <=> first # {}
                /\ Len(ran) = 2 <=> (first = {} /\ second # {})
                /\ Len(ran) >= 3 <=> (first = {} /\ second = {})
                /\ Cardinality({j \in DOMAIN ran : ran[j] = "mcs"}) <= 1
                /\ Cardinality(McsEvents(residx))
                      = (IF Len(ran) >= 3 THEN 1 ELSE 0)

\* C14 witness: make_reference has returned for a residue that went
\* through all the stages and got a record from the restricted call.
C14_Witness ==
    /\ entry = "run_system"
    /\ pc = "repair_graph"
    /\ \E i \in DOMAIN stages :
          /\ stages[i] = AllStages
          /\ residues.order[i] \in DOMAIN reference_graph.rec
          /\ reference_graph.rec[residues.order[i]].has

\* The residue at position i of the residue graph shares no atom with its
\* reference: the solver finds no common subgraph.
NoCommonSubgraph(i) ==
    LET res == residues.rec[residues.order[i]]
    IN  maximum_common_subgraph(force_field[res.resname], res.graph) = {}

\* C15: a residue for which the solver finds no common subgraph is skipped
\* without an exception leaving make_reference, and the other residues of
\* the molecule are recorded in the collection make_reference returns.
C15_NoCommonSubgraphSkipsResidue ==
    entry = "run_system" =>
        /\ exc # "ValueError"
        /\ InRepair =>
              \A i \in DOMAIN stages :
                  NoCommonSubgraph(i) <=>
                      residues.order[i] \notin DOMAIN reference_graph.rec

\* C16: run_system drops a molecule, with its warning, only for a resname
\* the force field has no reference for.
C16_OnlyUnknownResiduesDropped ==
    entry = "run_system" =>
        \A k \in DOMAIN log :
            (/\ log[k].what = "Can't recognize molecule"
             /\ log[k].pass = pass) =>
                Unknown(system0[log[k].mol])

\* ------------------------------------ claims about the reference collection
\* C17 as stated: no step of repair_graph writes to the reference
\* collection.
C17_CollectionOnlyRead ==
    [][reference_graph' = reference_graph]_vars

\* C17, amended: repair_graph keeps the records of the collection, their
\* order, the edges between them and each record's chain, resname, resid
\* and reference; a record's match only gains entries, and its found only
\* gains nodes (the synthesized atoms) and keeps its edges, while the
\* attributes of its nodes are rewritten.
C17_CollectionOnlyGrows ==
    [][/\ reference_graph'.order = reference_graph.order
       /\ reference_graph'.edges = reference_graph.edges
       /\ DOMAIN reference_graph'.rec = DOMAIN reference_graph.rec
       /\ \A residx \in DOMAIN reference_graph.rec :
             LET old == reference_graph.rec[residx]
                 new == reference_graph'.rec[residx]
             IN  /\ new.has = old.has
                 /\ new.chain = old.chain
                 /\ new.resname = old.resname
                 /\ new.resid = old.resid
                 /\ new.reference = old.reference
                 /\ DOMAIN old.match \subseteq DOMAIN new.match
                 /\ \A r \in DOMAIN old.match : new.match[r] = old.match[r]
                 /\ DOMAIN old.found.nodes \subseteq DOMAIN new.found.nodes
                 /\ new.found.edges = old.found.edges
                 /\ \A v \in DOMAIN old.found.nodes :
                        /\ new.found.nodes[v].element = old.found.nodes[v].element
                        /\ old.found.nodes[v].PTM_atom => new.found.nodes[v].PTM_atom]_vars

\* C17 witness: repair_graph returned with a record whose match gained an
\* entry and whose found holds a synthesized node and a flagged node.
C17_Witness ==
    /\ pc = "returned"
    /\ \E k \in DOMAIN synth :
          LET rec == reference_graph.rec[synth[k].rec]
          IN  /\ rec.match[synth[k].ref] = synth[k].node
              /\ synth[k].node \in DOMAIN rec.found.nodes
              /\ \E v \in DOMAIN rec.found.nodes : rec.found.nodes[v].PTM_atom

\* ------------------------------------------- claims about parallel repair
\* C18: with the residues of one structure graph repaired by interleaved
\* workers, an atom whose id was read after an earlier atom had been added
\* gets a greater id than that atom (so in every run in which each id is
\* read after all earlier additions, as in a sequential run in either
\* order of the residues, the ids are distinct); two atoms get the same id
\* only if the later one's id was read before the earlier one was added.
C18_SameIdOnlyWhenInterleaved ==
    entry = "parallel" =>
        \A j, k \in DOMAIN synth :
            j < k =>
                /\ synth[k].seen >= j => synth[j].node < synth[k].node
                /\ synth[j].node = synth[k].node => synth[k].seen < j

\* C18 witness: both workers are done, and two atoms synthesized for
\* different records were given the same node id: the structure graph
\* holds one node for the two, and both records' matches point at it.
C18_Witness ==
    /\ entry = "parallel"
    /\ \A w \in DOMAIN threads : threads[w].pc = "done"
    /\ \E j, k \in DOMAIN synth :
          /\ j < k
          /\ synth[j].rec # synth[k].rec
          /\ synth[j].node = synth[k].node
          /\ reference_graph.rec[synth[j].rec].match[synth[j].ref]
                = reference_graph.rec[synth[k].rec].match[synth[k].ref]

\* ------------------------------------------- claims about reachability
\* The reference atoms connected to the atoms S by a path of reference edges.
RECURSIVE Connected(_, _)
Connected(reference, S) ==
    LET more == UNION {Nbrs(reference, x) : x \in S}
    IN  IF more \subseteq S THEN S ELSE Connected(reference, S \cup more)

\* The keys the match of the record at position i had when its repair
\* started: its keys without the atoms synthesized for it.
InitialKeys(i) ==
    DOMAIN RecAt(i).match
        \ {r \in DOMAIN RecAt(i).reference.nodes :
              SynthesizedFor(reference_graph.order[i], r)}

\* C19: when the loop has ended for a record, a reference atom that was no
\* key of the initial match is a key of match, and was synthesized, exactly
\* if a path of reference edges leads from it to a key of the initial
\* match; when repair_residue has returned, the others are reported.
C19_SynthesizedIffConnected ==
    entry = "repair_graph" =>
        \A i \in DOMAIN reference_graph.order :
            (Repaired(i) \/ (i = ri /\ pc = "report")) =>
                \A r \in DOMAIN RecAt(i).reference.nodes \ InitialKeys(i) :
                    LET near == r \in Connected(RecAt(i).reference, InitialKeys(i))
                    IN  /\ SynthesizedFor(reference_graph.order[i], r) <=> near
                        /\ r \in DOMAIN RecAt(i).match <=> near
                        /\ (Repaired(i) /\ ~near) =>
                               Reported(reference_graph.order[i], r)

\* C19 witness: repair_graph returned; an atom was synthesized, and two
\* bonded atoms of a record without a path to a matched atom were reported.
C19_Witness ==
    /\ pc = "returned"
    /\ synth # <<>>
    /\ \E i \in DOMAIN reference_graph.order :
          \E r \in DOMAIN RecAt(i).reference.nodes :
              /\ Reported(reference_graph.order[i], r)
              /\ \E n \in Nbrs(RecAt(i).reference, r) :
                     Reported(reference_graph.order[i], n)

\* ---------------------------------------- claims about the structure graph
\* The atom is no value of a match and no node of a found of any record.
Uncovered(v) ==
    \A residx \in DOMAIN reference_graph.rec :
        /\ v \notin Range(reference_graph.rec[residx].match)
        /\ v \notin DOMAIN reference_graph.rec[residx].found.nodes

\* C20: no step of repair_graph removes a node or an edge of the structure
\* graph; an edge is added only by a step that synthesizes an atom, between
\* that atom and the structure node of a key the record's match had before
\* the step; and an atom that no record covers keeps its attributes.
C20_StructureOnlyGrows ==
    [][/\ DOMAIN molecule.nodes \subseteq DOMAIN molecule'.nodes
       /\ molecule.edges \subseteq molecule'.edges
       /\ \A e \in molecule'.edges \ molecule.edges :
             /\ Synthesizes
             /\ \E n \in DOMAIN Cur.match : e = {Cur.match[n], Allocated}
       /\ \A v \in DOMAIN molecule.nodes :
             Uncovered(v) => molecule'.nodes[v] = molecule.nodes[v]]_vars

\* C20 witness: repair_graph returned after it synthesized an atom and
\* flagged another, next to an atom no record covers.
C20_Witness ==
    /\ pc = "returned"
    /\ synth # <<>>
    /\ \E v \in DOMAIN molecule.nodes : molecule.nodes[v].PTM_atom
    /\ \E v \in DOMAIN molecule.nodes :
          /\ Uncovered(v)
          /\ molecule.nodes[v].resname = "HOH"
          /\ Nbrs(molecule, v) # {}

====
